---- MODULE Spec2Model ----
(***************************************************************************)
(* ptsd ("Parallel Thing/Stuff Doer"), src/src/main.rs: runs a list of     *)
(* shell commands with a bounded number of them in flight, one supervising *)
(* tokio task per spawned child, and exits 1 when a command failed.        *)
(*                                                                         *)
(* The scheduler is the body of main(): one pass over the commands that    *)
(* acquires a semaphore permit, creates the two log files, spawns the      *)
(* child and hands child and permit to a supervising task; then one pass   *)
(* over the join handles that records the failures; then the exit code.    *)
(* The environment decides, per command, whether the log files can be      *)
(* created, whether the shell can be spawned, how the child exits and      *)
(* whether waiting for it errors.                                          *)
(***************************************************************************)
EXTENDS Integers, Sequences, FiniteSets

\* Bounds of the model.
MaxCmds == 3        \* command lists of 0..MaxCmds commands
MaxJobs == 2        \* semaphore sizes 1..MaxJobs
MaxWidthCmds == 120 \* command counts for the file-name width alone

VARIABLES
    ncmds,            \* args.commands.len()
    jobs,             \* the semaphore's size (line 156-161)
    disable_progress, \* args.disable_progress
    pc,               \* where main() is
    i,                \* the ordinal the first loop is at (line 165)
    width,            \* line 150; 0 before it is computed
    dir_created,      \* line 145 has run
    available,        \* permits left in concurrent_jobs
    permit,           \* per ordinal: where its OwnedSemaphorePermit is
    pb,               \* per ordinal: its progress bar
    stdout_files,     \* ordinals whose <name>.stdout exists
    stderr_files,     \* ordinals whose <name>.stderr exists
    proc,             \* per ordinal: spawn_task_process's result, the child
    handle,           \* per ordinal: the supervising task's JoinHandle
    tasks,            \* the Vec of (i, handle), as the ordinals pushed
    k,                \* position of the second loop in tasks (1-based)
    failed_tasks,     \* the Vec of failed ordinals
    exit_code         \* the process's exit status; -1 while it runs,
                      \* 101 after a panic of main (Rust's panic status)

vars == <<ncmds, jobs, disable_progress, pc, i, width, dir_created, available,
          permit, pb, stdout_files, stderr_files, proc, handle, tasks, k,
          failed_tasks, exit_code>>

Ordinals == 0 .. (ncmds - 1)

Range(s) == { s[x] : x \in 1 .. Len(s) }

Count(s, v) == Cardinality({ x \in 1 .. Len(s) : s[x] = v })

----------------------------------------------------------------------------
\* Pure functions.

\* floor(log10(n)) for n >= 1: what `(n as f32).log10() as usize` yields
\* (the cast truncates; f32 holds every n of the model exactly).
RECURSIVE Log10Floor(_)
Log10Floor(n) == IF n < 10 THEN 0 ELSE 1 + Log10Floor(n \div 10)

\* Line 150: the width computed from the number of commands.
Width(n) == Log10Floor(n) + 1


----------------------------------------------------------------------------
\* The state main() starts its core in: the arguments are parsed, nothing
\* has run.  jobs is a NonZeroUsize (line 43) or the host's parallelism.
\* The semaphore (line 161) is not touched before the first acquire, so
\* its permits are counted from the start.

Init ==
    /\ ncmds \in 0 .. MaxCmds
    /\ jobs \in 1 .. MaxJobs
    /\ disable_progress \in BOOLEAN
    /\ pc = "start"
    /\ i = 0
    /\ width = 0
    /\ dir_created = FALSE
    /\ available = jobs
    /\ permit = [t \in Ordinals |-> "none"]
    /\ pb = [t \in Ordinals |-> "none"]
    /\ stdout_files = {}
    /\ stderr_files = {}
    /\ proc = [t \in Ordinals |-> "none"]
    /\ handle = [t \in Ordinals |-> "none"]
    /\ tasks = <<>>
    /\ k = 1
    /\ failed_tasks = <<>>
    /\ exit_code = -1

----------------------------------------------------------------------------
\* SchedStart without the test for an empty command list.
SchedStartNoEmptyCheck ==
    /\ pc = "start"
    /\ dir_created' = TRUE
    /\ width' = Width(ncmds)
    /\ pc' = "acquire"
    /\ UNCHANGED <<ncmds, jobs, disable_progress, i, available, permit, pb,
                   stdout_files, stderr_files, proc, handle, tasks, k,
                   failed_tasks, exit_code>>

\* main(), lines 137-161: an empty command list returns at once (status 0);
\* otherwise the log directory is created, the width computed and the
\* semaphore built.  (create_dir_all succeeding is the core's precondition.)

SchedStart ==
    /\ pc = "start"
    /\ \/ /\ ncmds = 0
          /\ pc' = "exited"
          /\ exit_code' = 0
          /\ UNCHANGED <<width, dir_created>>
       \/ /\ ncmds > 0
          /\ dir_created' = TRUE
          /\ width' = Width(ncmds)
          /\ pc' = "acquire"
          /\ UNCHANGED exit_code
    /\ UNCHANGED <<ncmds, jobs, disable_progress, i, available, permit, pb,
                   stdout_files, stderr_files, proc, handle, tasks, k,
                   failed_tasks>>

\* Where the first loop goes after ordinal t: the next command, or the
\* second loop once the commands are used up (lines 165, 209-212).
AfterIteration(t) == IF t + 1 < ncmds THEN "acquire" ELSE "collect"

\* SchedAcquire with try_acquire: when no permit is left the task goes on
\* without one.
SchedAcquireTry ==
    /\ pc = "acquire"
    /\ IF available > 0
       THEN /\ available' = available - 1
            /\ permit' = [permit EXCEPT ![i] = "sched"]
       ELSE UNCHANGED <<available, permit>>
    /\ pb' = [pb EXCEPT ![i] = IF disable_progress THEN "none" ELSE "progress"]
    /\ pc' = "spawn"
    /\ UNCHANGED <<ncmds, jobs, disable_progress, i, width, dir_created,
                   stdout_files, stderr_files, proc, handle, tasks, k,
                   failed_tasks, exit_code>>

\* SchedAcquire taking a permit without waiting for one to be left.
SchedAcquireNoWait ==
    /\ pc = "acquire"
    /\ available' = available - 1
    /\ permit' = [permit EXCEPT ![i] = "sched"]
    /\ pb' = [pb EXCEPT ![i] = IF disable_progress THEN "none" ELSE "progress"]
    /\ pc' = "spawn"
    /\ UNCHANGED <<ncmds, jobs, disable_progress, i, width, dir_created,
                   stdout_files, stderr_files, proc, handle, tasks, k,
                   failed_tasks, exit_code>>

\* Lines 167-179: acquire_owned().await resolves when a permit is left; the
\* permit is a local of the loop body.  The progress bar is then created,
\* unless progress is disabled.
SchedAcquire ==
    /\ pc = "acquire"
    /\ available > 0
    /\ available' = available - 1
    /\ permit' = [permit EXCEPT ![i] = "sched"]
    /\ pb' = [pb EXCEPT ![i] = IF disable_progress THEN "none" ELSE "progress"]
    /\ pc' = "spawn"
    /\ UNCHANGED <<ncmds, jobs, disable_progress, i, width, dir_created,
                   stdout_files, stderr_files, proc, handle, tasks, k,
                   failed_tasks, exit_code>>

\* Lines 96-102 failing: File::create(..).unwrap() panics inside
\* spawn_task_process, on the stdout file or, that one created, on the
\* stderr file.  The panic unwinds main: the process dies with status 101,
\* and its semaphore, handles and failure list die with it.
SpawnSinkPanic ==
    /\ pc = "spawn"
    /\ \E which \in {"stdout", "stderr"} :
          /\ stdout_files' = IF which = "stderr" THEN stdout_files \cup {i}
                                                 ELSE stdout_files
          /\ UNCHANGED stderr_files
    /\ proc' = [proc EXCEPT ![i] = "sink_panic"]
    /\ pc' = "panicked"
    /\ exit_code' = 101
    /\ UNCHANGED <<ncmds, jobs, disable_progress, i, width, dir_created,
                   available, permit, pb, handle, tasks, k, failed_tasks>>

\* SpawnFail with the spawn attempted before the sink files are created.
SpawnFailNoSinks ==
    /\ pc = "spawn"
    /\ proc' = [proc EXCEPT ![i] = "spawn_err"]
    /\ pb' = [pb EXCEPT ![i] = IF pb[i] = "none" THEN "none" ELSE "fail"]
    /\ failed_tasks' = Append(failed_tasks, i)
    /\ permit' = [permit EXCEPT ![i] = "released"]
    /\ available' = available + 1
    /\ i' = i + 1
    /\ pc' = AfterIteration(i)
    /\ UNCHANGED <<ncmds, jobs, disable_progress, width, dir_created, handle,
                   tasks, k, exit_code, stdout_files, stderr_files>>

\* SpawnFail with the push written inside the bar's closure: without a bar
\* the failure is not recorded.
SpawnFailPushInBar ==
    /\ pc = "spawn"
    /\ stdout_files' = stdout_files \cup {i}
    /\ stderr_files' = stderr_files \cup {i}
    /\ proc' = [proc EXCEPT ![i] = "spawn_err"]
    /\ pb' = [pb EXCEPT ![i] = IF pb[i] = "none" THEN "none" ELSE "fail"]
    /\ failed_tasks' = IF pb[i] = "none" THEN failed_tasks
                                         ELSE Append(failed_tasks, i)
    /\ permit' = [permit EXCEPT ![i] = "released"]
    /\ available' = available + 1
    /\ i' = i + 1
    /\ pc' = AfterIteration(i)
    /\ UNCHANGED <<ncmds, jobs, disable_progress, width, dir_created, handle,
                   tasks, k, exit_code>>

\* SpawnFail leaving the permit with the scheduler: never given back.
SpawnFailKeepsPermit ==
    /\ pc = "spawn"
    /\ stdout_files' = stdout_files \cup {i}
    /\ stderr_files' = stderr_files \cup {i}
    /\ proc' = [proc EXCEPT ![i] = "spawn_err"]
    /\ pb' = [pb EXCEPT ![i] = IF pb[i] = "none" THEN "none" ELSE "fail"]
    /\ failed_tasks' = Append(failed_tasks, i)
    /\ i' = i + 1
    /\ pc' = AfterIteration(i)
    /\ UNCHANGED <<ncmds, jobs, disable_progress, width, dir_created, handle,
                   tasks, k, exit_code, permit, available>>

\* Lines 96-111 and 184-191: both files are created, Command::spawn returns
\* Err.  The bar is marked failed, the ordinal pushed, and `continue` drops
\* the loop body's locals, the permit among them.
SpawnFail ==
    /\ pc = "spawn"
    /\ stdout_files' = stdout_files \cup {i}
    /\ stderr_files' = stderr_files \cup {i}
    /\ proc' = [proc EXCEPT ![i] = "spawn_err"]
    /\ pb' = [pb EXCEPT ![i] = IF pb[i] = "none" THEN "none" ELSE "fail"]
    /\ failed_tasks' = Append(failed_tasks, i)
    /\ permit' = [permit EXCEPT ![i] = "released"]
    /\ available' = available + 1
    /\ i' = i + 1
    /\ pc' = AfterIteration(i)
    /\ UNCHANGED <<ncmds, jobs, disable_progress, width, dir_created, handle,
                   tasks, k, exit_code>>

\* SpawnOk dropping the permit once the task is scheduled, not in the task.
SpawnOkReleasesEarly ==
    /\ pc = "spawn"
    /\ stdout_files' = stdout_files \cup {i}
    /\ stderr_files' = stderr_files \cup {i}
    /\ proc' = [proc EXCEPT ![i] = "running"]
    /\ permit' = [permit EXCEPT ![i] = "released"]
    /\ available' = available + 1
    /\ handle' = [handle EXCEPT ![i] = "pending"]
    /\ tasks' = Append(tasks, i)
    /\ i' = i + 1
    /\ pc' = AfterIteration(i)
    /\ UNCHANGED <<ncmds, jobs, disable_progress, width, dir_created,
                   pb, k, failed_tasks, exit_code>>

\* Lines 96-111, 183 and 194-208: the child is running; tokio::spawn moves
\* child, bar and permit into the supervising task, whose handle is pushed.
SpawnOk ==
    /\ pc = "spawn"
    /\ stdout_files' = stdout_files \cup {i}
    /\ stderr_files' = stderr_files \cup {i}
    /\ proc' = [proc EXCEPT ![i] = "running"]
    /\ permit' = [permit EXCEPT ![i] = "task"]
    /\ handle' = [handle EXCEPT ![i] = "pending"]
    /\ tasks' = Append(tasks, i)
    /\ i' = i + 1
    /\ pc' = AfterIteration(i)
    /\ UNCHANGED <<ncmds, jobs, disable_progress, width, dir_created,
                   available, pb, k, failed_tasks, exit_code>>

----------------------------------------------------------------------------
\* The environment: a running child exits, successfully or not.  Children
\* are separate processes (no kill_on_drop): they go on after a panic.

ProcExit(t) ==
    /\ t \in Ordinals
    /\ proc[t] = "running"
    /\ \E status \in {"exit_ok", "exit_fail"} :
          proc' = [proc EXCEPT ![t] = status]
    /\ UNCHANGED <<ncmds, jobs, disable_progress, pc, i, width, dir_created,
                   available, permit, pb, stdout_files, stderr_files, handle,
                   tasks, k, failed_tasks, exit_code>>

\* The process is alive: main has neither exited nor panicked.
Alive == pc \notin {"exited", "panicked"}

\* TaskWaitOk without the test that the wait is still outstanding: a
\* completed task's wait resolves again.
TaskWaitOkAgain(t) ==
    /\ t \in Ordinals
    /\ Alive
    /\ proc[t] \in {"exit_ok", "exit_fail"}
    /\ pb' = [pb EXCEPT ![t] = IF pb[t] = "none" THEN "none"
                               ELSE IF proc[t] = "exit_ok" THEN "done"
                               ELSE "fail"]
    /\ permit' = [permit EXCEPT ![t] = "released"]
    /\ available' = available + 1
    /\ handle' = [handle EXCEPT ![t] = IF proc[t] = "exit_ok" THEN "true"
                                       ELSE "false"]
    /\ UNCHANGED <<ncmds, jobs, disable_progress, pc, i, width, dir_created,
                   stdout_files, stderr_files, proc, tasks, k, failed_tasks,
                   exit_code>>

\* Lines 195-206, wait() returning Ok: the supervising task of ordinal t
\* resumes once the child has exited, marks the bar, drops the permit and
\* completes with res.success().
TaskWaitOk(t) ==
    /\ t \in Ordinals
    /\ Alive
    /\ handle[t] = "pending"
    /\ proc[t] \in {"exit_ok", "exit_fail"}
    /\ pb' = [pb EXCEPT ![t] = IF pb[t] = "none" THEN "none"
                               ELSE IF proc[t] = "exit_ok" THEN "done"
                               ELSE "fail"]
    /\ permit' = [permit EXCEPT ![t] = "released"]
    /\ available' = available + 1
    /\ handle' = [handle EXCEPT ![t] = IF proc[t] = "exit_ok" THEN "true"
                                       ELSE "false"]
    /\ UNCHANGED <<ncmds, jobs, disable_progress, pc, i, width, dir_created,
                   stdout_files, stderr_files, proc, tasks, k, failed_tasks,
                   exit_code>>

\* TaskWaitErr with the permit kept outside the panicking task: the unwind
\* does not give it back.
TaskWaitErrLeaksPermit(t) ==
    /\ t \in Ordinals
    /\ Alive
    /\ handle[t] = "pending"
    /\ proc[t] \in {"exit_ok", "exit_fail"}
    /\ pb' = [pb EXCEPT ![t] = IF pb[t] = "none" THEN "none" ELSE "dropped"]
    /\ handle' = [handle EXCEPT ![t] = "join_err"]
    /\ UNCHANGED <<ncmds, jobs, disable_progress, pc, i, width, dir_created,
                   stdout_files, stderr_files, proc, tasks, k, failed_tasks,
                   exit_code, permit, available>>

\* Line 195, wait() returning Err: unwrap() panics in the supervising task.
\* The runtime catches the panic and drops the task's future, so the permit
\* goes back and the bar is dropped unfinished; the handle yields JoinError.
\* (waitpid errs only for a child that is gone, so the child has exited.)
TaskWaitErr(t) ==
    /\ t \in Ordinals
    /\ Alive
    /\ handle[t] = "pending"
    /\ proc[t] \in {"exit_ok", "exit_fail"}
    /\ pb' = [pb EXCEPT ![t] = IF pb[t] = "none" THEN "none" ELSE "dropped"]
    /\ permit' = [permit EXCEPT ![t] = "released"]
    /\ available' = available + 1
    /\ handle' = [handle EXCEPT ![t] = "join_err"]
    /\ UNCHANGED <<ncmds, jobs, disable_progress, pc, i, width, dir_created,
                   stdout_files, stderr_files, proc, tasks, k, failed_tasks,
                   exit_code>>

----------------------------------------------------------------------------
\* SchedCollect going through the handles from the last one pushed.
SchedCollectReversed ==
    /\ pc = "collect"
    /\ \/ /\ k <= Len(tasks)
          /\ handle[tasks[Len(tasks) + 1 - k]] \in {"true", "false", "join_err"}
          /\ failed_tasks' = IF handle[tasks[Len(tasks) + 1 - k]] = "false"
                             THEN Append(failed_tasks, tasks[Len(tasks) + 1 - k])
                             ELSE failed_tasks
          /\ k' = k + 1
          /\ UNCHANGED pc
       \/ /\ k > Len(tasks)
          /\ pc' = "report"
          /\ UNCHANGED <<failed_tasks, k>>
    /\ UNCHANGED <<ncmds, jobs, disable_progress, i, width, dir_created,
                   available, permit, pb, stdout_files, stderr_files, proc,
                   handle, tasks, exit_code>>

\* SchedCollect polling the handle instead of awaiting it: a task that is
\* not complete yet is passed over.
SchedCollectNoAwait ==
    /\ pc = "collect"
    /\ \/ /\ k <= Len(tasks)
          /\ failed_tasks' = IF handle[tasks[k]] = "false"
                             THEN Append(failed_tasks, tasks[k])
                             ELSE failed_tasks
          /\ k' = k + 1
          /\ UNCHANGED pc
       \/ /\ k > Len(tasks)
          /\ pc' = "report"
          /\ UNCHANGED <<failed_tasks, k>>
    /\ UNCHANGED <<ncmds, jobs, disable_progress, i, width, dir_created,
                   available, permit, pb, stdout_files, stderr_files, proc,
                   handle, tasks, exit_code>>

\* SchedCollect with the match arms swapped: Ok(true) is pushed.
SchedCollectInverted ==
    /\ pc = "collect"
    /\ \/ /\ k <= Len(tasks)
          /\ handle[tasks[k]] \in {"true", "false", "join_err"}
          /\ failed_tasks' = IF handle[tasks[k]] = "true"
                             THEN Append(failed_tasks, tasks[k])
                             ELSE failed_tasks
          /\ k' = k + 1
          /\ UNCHANGED pc
       \/ /\ k > Len(tasks)
          /\ pc' = "report"
          /\ UNCHANGED <<failed_tasks, k>>
    /\ UNCHANGED <<ncmds, jobs, disable_progress, i, width, dir_created,
                   available, permit, pb, stdout_files, stderr_files, proc,
                   handle, tasks, exit_code>>

\* Lines 212-223: handle.await of the next pushed task resolves once that
\* task is complete; only Ok(false) is pushed, a JoinError is only logged.
\* Past the last handle the loop ends.

SchedCollect ==
    /\ pc = "collect"
    /\ \/ /\ k <= Len(tasks)
          /\ handle[tasks[k]] \in {"true", "false", "join_err"}
          /\ failed_tasks' = IF handle[tasks[k]] = "false"
                             THEN Append(failed_tasks, tasks[k])
                             ELSE failed_tasks
          /\ k' = k + 1
          /\ UNCHANGED pc
       \/ /\ k > Len(tasks)
          /\ pc' = "report"
          /\ UNCHANGED <<failed_tasks, k>>
    /\ UNCHANGED <<ncmds, jobs, disable_progress, i, width, dir_created,
                   available, permit, pb, stdout_files, stderr_files, proc,
                   handle, tasks, exit_code>>

\* SchedReport with an off-by-one test of the failure list's length.
SchedReportOffByOne ==
    /\ pc = "report"
    /\ exit_code' = IF Len(failed_tasks) > 1 THEN 1 ELSE 0
    /\ pc' = "exited"
    /\ UNCHANGED <<ncmds, jobs, disable_progress, i, width, dir_created,
                   available, permit, pb, stdout_files, stderr_files, proc,
                   handle, tasks, k, failed_tasks>>

\* Lines 225-232: the exit code from the failure list, then process::exit.
SchedReport ==
    /\ pc = "report"
    /\ exit_code' = IF Len(failed_tasks) > 0 THEN 1 ELSE 0
    /\ pc' = "exited"
    /\ UNCHANGED <<ncmds, jobs, disable_progress, i, width, dir_created,
                   available, permit, pb, stdout_files, stderr_files, proc,
                   handle, tasks, k, failed_tasks>>

----------------------------------------------------------------------------
Next ==
    \/ SchedStart
    \/ SchedAcquire
    \/ SpawnSinkPanic
    \/ SpawnFail
    \/ SpawnOk
    \/ \E t \in Ordinals : ProcExit(t)
    \/ \E t \in Ordinals : TaskWaitOk(t)
    \/ \E t \in Ordinals : TaskWaitErr(t)
    \/ SchedCollect
    \/ SchedReport

Spec == Init /\ [][Next]_vars

\* Scheduling: the runtime runs main() and every supervising task that can
\* make progress, and every child exits (the commands terminate).
SpawnStep == SpawnSinkPanic \/ SpawnFail \/ SpawnOk

TaskWait(t) == TaskWaitOk(t) \/ TaskWaitErr(t)

Fairness ==
    /\ WF_vars(SchedStart)
    /\ WF_vars(SchedAcquire)
    /\ WF_vars(SpawnStep)
    /\ WF_vars(SchedCollect)
    /\ WF_vars(SchedReport)
    /\ \A t \in 0 .. MaxCmds - 1 : WF_vars(ProcExit(t))
    /\ \A t \in 0 .. MaxCmds - 1 : WF_vars(TaskWait(t))

LiveSpec == Init /\ [][Next]_vars /\ Fairness

\* The width computation alone, over command counts up to MaxWidthCmds.
InitWidth ==
    /\ ncmds \in 0 .. MaxWidthCmds
    /\ jobs = 1
    /\ disable_progress = TRUE
    /\ pc = "start"
    /\ i = 0
    /\ width = 0
    /\ dir_created = FALSE
    /\ available = jobs
    /\ permit = [t \in Ordinals |-> "none"]
    /\ pb = [t \in Ordinals |-> "none"]
    /\ stdout_files = {}
    /\ stderr_files = {}
    /\ proc = [t \in Ordinals |-> "none"]
    /\ handle = [t \in Ordinals |-> "none"]
    /\ tasks = <<>>
    /\ k = 1
    /\ failed_tasks = <<>>
    /\ exit_code = -1

NextWidth == SchedStart

WidthSpec == InitWidth /\ [][NextWidth]_vars

----------------------------------------------------------------------------
\* What the properties speak of.

\* Children spawned and not yet exited.
InFlight == { t \in Ordinals : proc[t] = "running" }

\* The supervising task of t is complete: wait() resolved, or it panicked.
Joined(t) == handle[t] \in {"true", "false", "join_err"}

\* Task t is over: it failed to spawn, or its supervising task is complete.
Terminal(t) == proc[t] = "spawn_err" \/ Joined(t)

\* Task t did not succeed: spawn failure, or wait() reported a
\* non-successful exit.
TaskFailed(t) == proc[t] = "spawn_err" \/ handle[t] = "false"

\* Task t succeeded: spawned, and wait() reported success.
TaskSucceeded(t) == handle[t] = "true"

\* Number of decimal digits of n >= 0, by integer division.
RECURSIVE DigitCount(_)
DigitCount(n) == IF n < 10 THEN 1 ELSE 1 + DigitCount(n \div 10)

----------------------------------------------------------------------------
\* C1: in every reachable state the number of children spawned and not yet
\* exited is at most the semaphore's size, whatever the interleaving of
\* child exits and scheduler steps.
C1_InFlightBounded == Cardinality(InFlight) <= jobs

\* C1 witness: the gate is full (two children in flight) and the scheduler
\* waits for a permit for the next command.
C1_GateFull ==
    /\ jobs >= 2
    /\ Cardinality(InFlight) = jobs
    /\ pc = "acquire"
    /\ available = 0

\* C2: when main ends with its failure list final (the return on an empty
\* command list, or process::exit after the second loop), the exit code is
\* 1 exactly when the list is non-empty and 0 otherwise.
C2_ExitCodeFromFailureList ==
    pc = "exited" =>
        /\ exit_code = 1 <=> failed_tasks # <<>>
        /\ exit_code = 0 <=> failed_tasks = <<>>
        /\ ncmds = 0 => exit_code = 0

\* C2 witness: a run that ended with a non-empty failure list and status 1.
C2_ExitedWithFailures ==
    pc = "exited" /\ failed_tasks # <<>> /\ exit_code = 1

\* C3: once the process has an exit code, it is 0 or 1: 0 if every task
\* succeeded, 1 if a task failed (spawn failure or non-successful exit).
C3_ExitCodeZeroOrOne ==
    exit_code # -1 =>
        /\ exit_code \in {0, 1}
        /\ (\A t \in Ordinals : TaskSucceeded(t)) => exit_code = 0
        /\ (\E t \in Ordinals : TaskFailed(t)) => exit_code = 1

\* C4: no ordinal is in the failure list twice, only tasks that failed are
\* in it, and when the list is read (the second loop is over) every task
\* that failed to spawn or exited non-successfully is in it exactly once,
\* whatever order the tasks finished in.
C4_FailuresRecordedOnce ==
    /\ \A t \in Ordinals : Count(failed_tasks, t) <= 1
    /\ \A t \in Range(failed_tasks) : TaskFailed(t)
    /\ pc \in {"report", "exited"} =>
          \A t \in Ordinals : TaskFailed(t) => Count(failed_tasks, t) = 1

\* C4 witness: the list is read with a spawn failure and a failed exit in
\* it, the failed exit of a lower ordinal than the spawn failure, and with
\* a task that succeeded left out.
C4_MixedFailuresRecorded ==
    /\ pc = "report"
    /\ \E t, u, v \in Ordinals :
          /\ t < u
          /\ handle[t] = "false"
          /\ proc[u] = "spawn_err"
          /\ TaskSucceeded(v)
          /\ Count(failed_tasks, t) = 1
          /\ Count(failed_tasks, u) = 1

\* C5: a task whose sink file could not be created is counted as failed and
\* the failure is not fatal to the process.
C5_SinkFailureIsTaskFailure ==
    \A t \in Ordinals :
        proc[t] = "sink_panic" =>
            /\ pc # "panicked"
            /\ t \in Range(failed_tasks)

\* C6: when the run has ended, every task whose wait errored (its
\* supervising task panicked) is in the failure list and the exit code is 1.
C6_WaitErrorCounted ==
    pc = "exited" =>
        \A t \in Ordinals :
            handle[t] = "join_err" =>
                t \in Range(failed_tasks) /\ exit_code = 1

\* C7: under fair scheduling, with every child exiting, the run produces
\* its exit code with every task in a terminal state, whatever errors the
\* single tasks met.
C7_RunCompletes ==
    <>(pc = "exited" /\ \A t \in Ordinals : Terminal(t))

\* C8: a failed spawn gives the permit back in the same step; every wait
\* for a permit ends with the permit granted; and the run never stalls: it
\* ends with every task terminal (or with the panic of a sink creation).
C8_NoOrphanedPermit ==
    /\ [][(pc = "spawn" /\ proc'[i] = "spawn_err")
             => (available' = available + 1 /\ permit'[i] = "released")]_vars
    /\ (pc = "acquire") ~> (pc = "spawn")
    /\ <>(\/ pc = "panicked"
          \/ pc = "exited" /\ \A t \in Ordinals : Terminal(t))

\* C8 witness: one permit, the first task failed to spawn, and the run has
\* ended with every later task spawned and successful.
C8_AllCompleteAfterSpawnFailure ==
    /\ jobs = 1
    /\ ncmds >= 2
    /\ pc = "exited"
    /\ proc[0] = "spawn_err"
    /\ \A t \in Ordinals : t > 0 => TaskSucceeded(t)

\* C9: a task's permit is acquired before its child is spawned, is held by
\* the supervising task for as long as the child runs, and, for a spawned
\* child, is released only once the child has exited and its wait resolved.
C9_PermitSpansProcess ==
    \A t \in Ordinals :
        /\ proc[t] # "none" => permit[t] # "none"
        /\ proc[t] = "running" => permit[t] = "task"
        /\ (permit[t] = "released" /\ proc[t] # "spawn_err") =>
              (proc[t] \in {"exit_ok", "exit_fail"} /\ Joined(t))

\* C9 witness: one child has exited and still holds its permit (its wait
\* has not resolved) while another task's permit was released after its
\* wait resolved.
C9_ReleasedAfterExit ==
    \E t, u \in Ordinals :
        /\ proc[t] \in {"exit_ok", "exit_fail"}
        /\ permit[t] = "task"
        /\ permit[u] = "released"
        /\ handle[u] \in {"true", "false"}

\* C10: the width used for the sink file names is the number of decimal
\* digits of the largest ordinal, ncmds - 1 (at least 1).
C10_WidthIsDigitsOfLastOrdinal ==
    width # 0 => width = DigitCount(ncmds - 1)

\* C11: when the run over ncmds tasks has finished (the second loop is
\* over), exactly ncmds pairs of sink files exist, one stdout and one stderr
\* file per ordinal, whatever the task's outcome; and at no time is there a
\* file of an ordinal outside the list or a stderr file without its stdout
\* file.
C11_SinkPairPerTask ==
    /\ stdout_files \subseteq Ordinals
    /\ stderr_files \subseteq stdout_files
    /\ pc \in {"report", "exited"} =>
          /\ stdout_files = Ordinals
          /\ stderr_files = Ordinals
          /\ Cardinality(stdout_files) = ncmds
          /\ Cardinality(stderr_files) = ncmds

\* C11 witness: a finished run with a task that failed to spawn and a task
\* that exited non-successfully, both with their pair of files.
C11_FailedTasksHaveSinks ==
    /\ pc = "exited"
    /\ \E t, u \in Ordinals :
          /\ proc[t] = "spawn_err"
          /\ handle[u] = "false"
          /\ {t, u} \subseteq stdout_files \cap stderr_files

\* C12: the final failure list is in ascending ordinal order, for every mix
\* of spawn failures and non-successful exits and every completion order.
C12_FailureListSorted ==
    pc \in {"report", "exited"} =>
        \A x, y \in 1 .. Len(failed_tasks) :
            x < y => failed_tasks[x] < failed_tasks[y]

\* C13: an empty command list is a no-op: no permit is acquired, no log
\* directory and no sink file created, no child spawned, no supervising
\* task started, no progress bar made, and the process exits 0.
C13_EmptyListNoOp ==
    ncmds = 0 =>
        /\ available = jobs
        /\ ~dir_created
        /\ width = 0
        /\ stdout_files = {} /\ stderr_files = {}
        /\ tasks = <<>> /\ failed_tasks = <<>>
        /\ DOMAIN permit = {} /\ DOMAIN proc = {} /\ DOMAIN pb = {}
        /\ pc \in {"start", "exited"}
        /\ exit_code = IF pc = "exited" THEN 0 ELSE -1

\* C13 witness: the run over an empty list has ended.
C13_EmptyListExited == ncmds = 0 /\ pc = "exited" /\ exit_code = 0

\* The failed ordinals as the per-ordinal outcomes alone give them: the
\* spawn failed, or the child exited non-successfully and its wait said so.
FailuresByOutcome ==
    { t \in Ordinals :
        \/ proc[t] = "spawn_err"
        \/ proc[t] = "exit_fail" /\ handle[t] # "join_err" }

\* C14: the final set of failed ordinals is a function of the per-ordinal
\* spawn and exit outcomes only: whatever the interleaving of child exits,
\* the completion order and the permit count, a finished run's set is
\* FailuresByOutcome, so two runs with the same outcomes agree on it.
C14_FailureSetFromOutcomes ==
    pc \in {"report", "exited"} => Range(failed_tasks) = FailuresByOutcome

\* C14 witness: a finished run with fewer permits than commands (tasks had
\* to wait for each other), a successful exit and a later failed exit, and
\* only the latter in the list.
C14_OutOfOrderCompletion ==
    /\ pc = "exited"
    /\ jobs < ncmds
    /\ \E t, u \in Ordinals :
          /\ t < u
          /\ proc[t] = "exit_ok" /\ handle[t] = "true"
          /\ proc[u] = "exit_fail" /\ handle[u] = "false"
          /\ Range(failed_tasks) = {u}

\* C15: permits are asked for in input order.  While the scheduler waits
\* for the permit of ordinal i, every lower ordinal has had its permit and
\* its spawn attempt and no higher ordinal has asked; a spawn is attempted
\* only with the permit just granted; so permits are granted and spawns
\* attempted in ascending ordinal order.
C15_AcquireInInputOrder ==
    /\ \A t, u \in Ordinals :
          t < u => /\ permit[u] # "none" => permit[t] # "none"
                   /\ proc[u] # "none" => proc[t] # "none"
    /\ pc = "acquire" =>
          /\ \A t \in Ordinals : t < i => permit[t] # "none" /\ proc[t] # "none"
          /\ \A t \in Ordinals : t >= i => permit[t] = "none" /\ proc[t] = "none"
    /\ pc = "spawn" =>
          /\ permit[i] = "sched" /\ proc[i] = "none"
          /\ \A t \in Ordinals : t < i => proc[t] # "none"
          /\ \A t \in Ordinals : t > i => permit[t] = "none"

\* C15 witness: the scheduler waits for the permit of a later ordinal while
\* a higher ordinal has completed before a lower one (completion order is
\* free).
C15_CompletionOutOfOrder ==
    /\ pc = "acquire"
    /\ \E t, u \in Ordinals :
          t < u /\ u < i /\ handle[t] = "pending" /\ Joined(u)

----------------------------------------------------------------------------
\* The core without the progress reporter: main() with multi_progress_bar
\* = None, where every `pb.map(..)` (lines 172, 185, 196) does nothing.
\* Each step is written over the core's state alone; neither pb nor
\* disable_progress occurs in it.

CoreStart ==
    /\ pc = "start"
    /\ IF ncmds = 0
       THEN pc' = "exited" /\ exit_code' = 0 /\ UNCHANGED <<width, dir_created>>
       ELSE /\ pc' = "acquire" /\ dir_created' = TRUE
            /\ width' = Width(ncmds) /\ UNCHANGED exit_code
    /\ UNCHANGED <<ncmds, jobs, i, available, permit, stdout_files,
                   stderr_files, proc, handle, tasks, k, failed_tasks>>

CoreAcquire ==
    /\ pc = "acquire" /\ available > 0
    /\ available' = available - 1
    /\ permit' = [permit EXCEPT ![i] = "sched"]
    /\ pc' = "spawn"
    /\ UNCHANGED <<ncmds, jobs, i, width, dir_created, stdout_files,
                   stderr_files, proc, handle, tasks, k, failed_tasks,
                   exit_code>>

CoreSinkPanic(which) ==
    /\ pc = "spawn"
    /\ stdout_files' = IF which = "stderr" THEN stdout_files \cup {i}
                                           ELSE stdout_files
    /\ proc' = [proc EXCEPT ![i] = "sink_panic"]
    /\ pc' = "panicked" /\ exit_code' = 101
    /\ UNCHANGED <<ncmds, jobs, i, width, dir_created, available, permit,
                   stderr_files, handle, tasks, k, failed_tasks>>

CoreSpawnFail ==
    /\ pc = "spawn"
    /\ stdout_files' = stdout_files \cup {i}
    /\ stderr_files' = stderr_files \cup {i}
    /\ proc' = [proc EXCEPT ![i] = "spawn_err"]
    /\ failed_tasks' = Append(failed_tasks, i)
    /\ permit' = [permit EXCEPT ![i] = "released"]
    /\ available' = available + 1
    /\ i' = i + 1
    /\ pc' = AfterIteration(i)
    /\ UNCHANGED <<ncmds, jobs, width, dir_created, handle, tasks, k,
                   exit_code>>

CoreSpawnOk ==
    /\ pc = "spawn"
    /\ stdout_files' = stdout_files \cup {i}
    /\ stderr_files' = stderr_files \cup {i}
    /\ proc' = [proc EXCEPT ![i] = "running"]
    /\ permit' = [permit EXCEPT ![i] = "task"]
    /\ handle' = [handle EXCEPT ![i] = "pending"]
    /\ tasks' = Append(tasks, i)
    /\ i' = i + 1
    /\ pc' = AfterIteration(i)
    /\ UNCHANGED <<ncmds, jobs, width, dir_created, available, k,
                   failed_tasks, exit_code>>

CoreProcExit(t, status) ==
    /\ proc[t] = "running"
    /\ proc' = [proc EXCEPT ![t] = status]
    /\ UNCHANGED <<ncmds, jobs, pc, i, width, dir_created, available, permit,
                   stdout_files, stderr_files, handle, tasks, k,
                   failed_tasks, exit_code>>

\* res is "ok" when wait() returned the exit status, "err" when it erred.
CoreTaskWait(t, res) ==
    /\ Alive
    /\ handle[t] = "pending"
    /\ proc[t] \in {"exit_ok", "exit_fail"}
    /\ permit' = [permit EXCEPT ![t] = "released"]
    /\ available' = available + 1
    /\ handle' = [handle EXCEPT ![t] =
                     IF res = "err" THEN "join_err"
                     ELSE IF proc[t] = "exit_ok" THEN "true" ELSE "false"]
    /\ UNCHANGED <<ncmds, jobs, pc, i, width, dir_created, stdout_files,
                   stderr_files, proc, tasks, k, failed_tasks, exit_code>>

CoreCollect ==
    /\ pc = "collect"
    /\ IF k <= Len(tasks)
       THEN /\ Joined(tasks[k])
            /\ failed_tasks' = IF handle[tasks[k]] = "false"
                               THEN Append(failed_tasks, tasks[k])
                               ELSE failed_tasks
            /\ k' = k + 1
            /\ UNCHANGED pc
       ELSE pc' = "report" /\ UNCHANGED <<failed_tasks, k>>
    /\ UNCHANGED <<ncmds, jobs, i, width, dir_created, available, permit,
                   stdout_files, stderr_files, proc, handle, tasks, exit_code>>

CoreReport ==
    /\ pc = "report"
    /\ exit_code' = IF Len(failed_tasks) > 0 THEN 1 ELSE 0
    /\ pc' = "exited"
    /\ UNCHANGED <<ncmds, jobs, i, width, dir_created, available, permit,
                   stdout_files, stderr_files, proc, handle, tasks, k,
                   failed_tasks>>

CoreNext ==
    \/ CoreStart
    \/ CoreAcquire
    \/ \E which \in {"stdout", "stderr"} : CoreSinkPanic(which)
    \/ CoreSpawnFail
    \/ CoreSpawnOk
    \/ \E t \in Ordinals, status \in {"exit_ok", "exit_fail"} :
          CoreProcExit(t, status)
    \/ \E t \in Ordinals, res \in {"ok", "err"} : CoreTaskWait(t, res)
    \/ CoreCollect
    \/ CoreReport

\* Every step the reporter-free core can take from the core's state is a
\* step the program can take in the state it is in, whichever mode that is.
CoreStepsEnabled ==
    /\ ENABLED CoreStart => ENABLED (SchedStart /\ CoreStart)
    /\ ENABLED CoreAcquire => ENABLED (SchedAcquire /\ CoreAcquire)
    /\ \A which \in {"stdout", "stderr"} :
          ENABLED CoreSinkPanic(which) =>
              ENABLED (SpawnSinkPanic /\ CoreSinkPanic(which))
    /\ ENABLED CoreSpawnFail => ENABLED (SpawnFail /\ CoreSpawnFail)
    /\ ENABLED CoreSpawnOk => ENABLED (SpawnOk /\ CoreSpawnOk)
    /\ \A t \in Ordinals, status \in {"exit_ok", "exit_fail"} :
          ENABLED CoreProcExit(t, status) =>
              ENABLED (ProcExit(t) /\ CoreProcExit(t, status))
    /\ \A t \in Ordinals :
          /\ ENABLED CoreTaskWait(t, "ok") =>
                ENABLED (TaskWaitOk(t) /\ CoreTaskWait(t, "ok"))
          /\ ENABLED CoreTaskWait(t, "err") =>
                ENABLED (TaskWaitErr(t) /\ CoreTaskWait(t, "err"))
    /\ ENABLED CoreCollect => ENABLED (SchedCollect /\ CoreCollect)
    /\ ENABLED CoreReport => ENABLED (SchedReport /\ CoreReport)

\* C16: the core behaves the same with and without the progress reporter.
\* In either mode every step of the program is, on the core's state
\* (permits, children, handles, failure list, exit code), a step of the
\* reporter-free core, and every step of the reporter-free core is one the
\* program can take; so for the same outcomes and the same interleaving
\* both modes go through the same core states.
C16_CoreIgnoresReporter ==
    /\ [][CoreNext]_vars
    /\ []CoreStepsEnabled

\* C16 witness: a headless run (no bar was ever made) has finished with a
\* spawn failure, a failed exit and a successful exit, and exit code 1.
C16_HeadlessRunFinished ==
    /\ disable_progress
    /\ pc = "exited" /\ exit_code = 1
    /\ \A t \in Ordinals : pb[t] = "none"
    /\ \E t, u, v \in Ordinals :
          proc[t] = "spawn_err" /\ handle[u] = "false" /\ handle[v] = "true"

----------------------------------------------------------------------------
\* The lifecycle state of task t, read off the program's state.  A task
\* whose wait erred is Terminated too (with no Succeeded/Failed outcome:
\* C6); a task whose sink creation panicked stays Spawning in a dead
\* process.
TaskState(t) ==
    IF proc[t] = "spawn_err" \/ Joined(t) THEN "Terminated"
    ELSE IF handle[t] = "pending" THEN "Running"
    ELSE IF permit[t] = "sched" THEN "Spawning"
    ELSE IF pc = "acquire" /\ i = t THEN "AwaitingPermit"
    ELSE "Queued"

\* The lifecycle's edges.
LifecycleEdges ==
    { <<"Queued", "AwaitingPermit">>, <<"AwaitingPermit", "Spawning">>,
      <<"Spawning", "Running">>, <<"Running", "Terminated">>,
      <<"Spawning", "Terminated">> }

\* C17: in every step each task stays in its lifecycle state or moves along
\* one edge of Queued -> AwaitingPermit -> Spawning -> Running ->
\* Terminated, or Spawning -> Terminated on a spawn failure and only then;
\* a Terminated task's child, handle (its outcome) and permit never change
\* again; a handle resolves only from a pending wait on an exited child,
\* so each child is waited on once; and when the second loop is over every
\* task is Terminated.
C17_LifecycleForwardOnly ==
    /\ [][\A t \in Ordinals :
            /\ \/ TaskState(t)' = TaskState(t)
               \/ <<TaskState(t), TaskState(t)'>> \in LifecycleEdges
            /\ (TaskState(t) = "Spawning" /\ TaskState(t)' = "Terminated")
                  <=> (TaskState(t) = "Spawning" /\ proc'[t] = "spawn_err")
            /\ (TaskState(t) = "Running" /\ TaskState(t)' = "Terminated")
                  => (proc[t] \in {"exit_ok", "exit_fail"} /\ Joined(t)')
            /\ TaskState(t) = "Terminated" =>
                  /\ proc'[t] = proc[t]
                  /\ handle'[t] = handle[t]
                  /\ permit'[t] = permit[t]]_vars
    /\ [](pc \in {"report", "exited"} =>
             \A t \in Ordinals : TaskState(t) = "Terminated")

\* C17 witness: the run has ended with a task Terminated by a spawn
\* failure, one by a successful exit and one by a failed exit.
C17_AllTerminalKinds ==
    /\ pc = "exited"
    /\ \E t, u, v \in Ordinals :
          /\ proc[t] = "spawn_err" /\ handle[t] = "none"
          /\ handle[u] = "true"
          /\ handle[v] = "false"

\* The tasks that hold a permit: acquired, not yet dropped.
PermitHolders == { t \in Ordinals : permit[t] \in {"sched", "task"} }

\* C18: permits are conserved and given back on every path: in every state
\* the semaphore's free permits plus the permits held by tasks equal the
\* configured count; no terminated task (succeeded, failed, spawn error or
\* wait error) holds one; and when the run produces its exit code every
\* permit is back in the semaphore.
C18_PermitsConserved ==
    /\ available + Cardinality(PermitHolders) = jobs
    /\ available \in 0 .. jobs
    /\ \A t \in Ordinals : Terminal(t) => permit[t] = "released"
    /\ pc \in {"report", "exited"} => available = jobs /\ PermitHolders = {}

\* C18 witness: the run has ended, with a spawn failure and a wait error
\* among its tasks, and the semaphore is full again.
C18_AllPermitsBack ==
    /\ pc = "exited"
    /\ available = jobs
    /\ \E t, u \in Ordinals : proc[t] = "spawn_err" /\ handle[u] = "join_err"

\* C19: with the progress reporter present, a task has its bar (its start
\* event) only once it holds or held a permit, and when the run has
\* finished every task that got a bar has had its one terminal event,
\* matching its outcome: done when the child exited successfully, fail when
\* the spawn failed or the child exited non-successfully.
C19_TerminalEventMatchesOutcome ==
    ~disable_progress =>
        /\ \A t \in Ordinals : pb[t] # "none" => permit[t] # "none"
        /\ pc \in {"report", "exited"} =>
              \A t \in Ordinals :
                  pb[t] # "none" =>
                      /\ pb[t] \in {"done", "fail"}
                      /\ pb[t] = "done" <=> proc[t] = "exit_ok"
                      /\ pb[t] = "fail" <=> proc[t] \in {"spawn_err", "exit_fail"}

\* The elements of a finite set of ordinals in ascending order.
RECURSIVE Ascending(_)
Ascending(S) ==
    IF S = {} THEN <<>>
    ELSE LET m == CHOOSE x \in S : \A y \in S : x <= y
         IN  <<m>> \o Ascending(S \ {m})

\* C20: the failure list is written by the scheduler only: a step in which
\* a supervising task completes leaves it alone, and it grows only by the
\* first loop's ordinal on a spawn failure or by the handle the second loop
\* is at.  Handles are collected only after every command was admitted,
\* one at a time in the order pushed, which is ascending.  So the final
\* list is the spawn-failed ordinals in ascending order followed by the
\* ordinals that exited non-successfully in ascending order, whatever the
\* completion order.
C20_FailureListOrder ==
    /\ [][/\ (\E t \in Ordinals : handle[t] = "pending" /\ handle'[t] # "pending")
               => failed_tasks' = failed_tasks
          /\ failed_tasks' # failed_tasks =>
                \/ pc = "spawn" /\ failed_tasks' = Append(failed_tasks, i)
                \/ pc = "collect" /\ failed_tasks' = Append(failed_tasks, tasks[k])
          /\ k' # k => (pc = "collect" /\ i = ncmds /\ k' = k + 1)]_vars
    /\ [](\A x, y \in 1 .. Len(tasks) : x < y => tasks[x] < tasks[y])
    /\ [](pc \in {"report", "exited"} =>
             failed_tasks =
                 Ascending({ t \in Ordinals : proc[t] = "spawn_err" })
                 \o Ascending({ t \in Ordinals : handle[t] = "false" }))

\* C20 witness: the final list holds a spawn failure ahead of a failed exit
\* of a lower ordinal, and two failed exits in ascending order.
C20_SpawnFailuresFirst ==
    /\ pc = "report"
    /\ \E t, u, v \in Ordinals :
          /\ t < u /\ u < v
          /\ handle[t] = "false" /\ handle[u] = "false"
          /\ proc[v] = "spawn_err"
          /\ failed_tasks = <<v, t, u>>

====
